---- MODULE Spec2Model ----
(***************************************************************************)
(* Staged intermediate-representation pipeline of staticstaging:           *)
(*   src/src/sugar.ts   desugar_cross_stage, desugar_macros,                *)
(*                      group_by_prog, find_externs, semantically_analyze   *)
(*   src/src/compile/ir.ts   Scope / Proc / Prog / CompilerIR               *)
(*   src/Makefile:195-644 (backends/glsl.ts)   prog_kind, compile_prog      *)
(***************************************************************************)
EXTENDS Integers, Sequences, FiniteSets, TLC

----------------------------------------------------------------------------
(* Bounds of the model. *)

\* deepest quotation nesting of an input program
MaxDepth == 2

\* ids of the tables handed to group_by_prog on its own: 0..MaxScopes - 1
MaxScopes == 4

\* most Progs of an IR handed to the backend on its own
MaxProgs == 3

\* most persist escapes, and most free variables, of the quotation handed
\* to frag
MaxVars == 2

----------------------------------------------------------------------------
(* Values shared by all parts. *)

\* JavaScript `undefined` where a string is expected
undefined == "undefined"

\* JavaScript `undefined` where a number is expected: `undefined === 0` and
\* `undefined > 0` are both false, and so are `UndefIndex = 0`, `UndefIndex > 0`
UndefIndex == 0 - 1

\* id of a node that has not been stamped yet
NoId == 0 - 1

\* identifiers used by the input programs
Names == {"x", "m"}

\* the types the model distinguishes; "Any" is a type the model leaves open
Types == {"Int", "Fun", "Any"}

\* the elements of a sequence
Range(seq) == {seq[i] : i \in DOMAIN seq}

Max(S) == CHOOSE a \in S : \A b \in S : b <= a

\* `array.length` of a (possibly sparse) JavaScript array
Length(table) == IF DOMAIN table = {} THEN 0 ELSE Max(DOMAIN table) + 1

\* `table[id] = entry` on a JavaScript array
Store(table, id, entry) == (id :> entry) @@ table

----------------------------------------------------------------------------
(* Syntax trees.  Every node is a record of one shape: `ident` is the name  *)
(* a lookup, let, extern or macro call carries (ident, name, macro) and     *)
(* `kids` holds the child expressions in source order.                     *)

Node(tag, ident, kind, count, kids) ==
  [tag |-> tag, id |-> NoId, ident |-> ident, kind |-> kind,
   count |-> count, expansion |-> undefined, kids |-> kids]

LiteralNode == Node("literal", undefined, undefined, 0, <<>>)
LookupNode(ident) == Node("lookup", ident, undefined, 0, <<>>)
MacroCallNode(macro) == Node("macrocall", macro, undefined, 0, <<>>)
ExternNode(name, expansion) ==
  [Node("extern", name, undefined, 0, <<>>) EXCEPT !.expansion = expansion]
FunNode(body) == Node("fun", undefined, undefined, 0, <<body>>)
LetNode(ident, expr) == Node("let", ident, undefined, 0, <<expr>>)
\* a sequence `e1; e2; ...`, with its expressions in order
SeqNode(exprs) == Node("seq", undefined, undefined, 0, exprs)
QuoteNode(expr) == Node("quote", undefined, undefined, 0, <<expr>>)
EscapeNode(kind, expr, count) == Node("escape", undefined, kind, count, <<expr>>)
CallNode(fun, args) == Node("call", undefined, undefined, 0, <<fun>> \o args)

\* number of nodes of a tree
RECURSIVE Size(_)
RECURSIVE SumSizes(_, _)
SumSizes(kids, i) ==
  IF i > Len(kids) THEN 0 ELSE Size(kids[i]) + SumSizes(kids, i + 1)
Size(tree) == 1 + SumSizes(tree.kids, 1)

\* give every node of `tree` an id, in pre-order, starting at `start`
RECURSIVE stamp(_, _)
RECURSIVE stamp_kids(_, _, _)
stamp_kids(kids, i, next) ==
  IF i > Len(kids) THEN <<>>
  ELSE <<stamp(kids[i], next)>>
         \o stamp_kids(kids, i + 1, next + Size(kids[i]))
stamp(tree, start) ==
  [tree EXCEPT !.id = start, !.kids = stamp_kids(tree.kids, 1, start + 1)]

\* the nodes of a tree, in pre-order
RECURSIVE Flatten(_)
RECURSIVE FlattenKids(_, _)
FlattenKids(kids, i) ==
  IF i > Len(kids) THEN <<>>
  ELSE Flatten(kids[i]) \o FlattenKids(kids, i + 1)
Flatten(tree) == <<tree>> \o FlattenKids(tree.kids, 1)

\* the nodes of a tree, as a set
Nodes(tree) == {Flatten(tree)[i] : i \in 1..Len(Flatten(tree))}

\* The tree a pass works on is a heap of nodes addressed by id, [root, nodes]:
\* a node of the heap holds the ids of its children.
Link(n) == [n EXCEPT !.kids = [k \in 1..Len(n.kids) |-> n.kids[k].id]]

\* the function id -> record of a set of records with distinct ids
Table(S) == [id \in {n.id : n \in S} |-> CHOOSE n \in S : n.id = id]

\* the heap nodes of a stamped tree
Graft(tree) == Table({Link(n) : n \in Nodes(tree)})

\* JavaScript `null` where an id is expected (Scope.quote_parent)
null == 0 - 1

\* the node that holds `id` as a child, null for the root
Parent(tree, id) ==
  IF id = tree.root THEN null
  ELSE CHOOSE p \in DOMAIN tree.nodes :
         \E k \in 1..Len(tree.nodes[p].kids) : tree.nodes[p].kids[k] = id

\* the indices of a JavaScript array that hold a value, in iteration order
RECURSIVE Ascending(_)
Ascending(S) ==
  IF S = {} THEN <<>>
  ELSE LET lo == CHOOSE a \in S : \A b \in S : a <= b
       IN <<lo>> \o Ascending(S \ {lo})


----------------------------------------------------------------------------
(* Stage environments and the elaborator.                                  *)

\* a scope with no binding
EmptyScope == [n \in Names |-> undefined]

\* the environment of a top-level program whose externs are `externs`
Env(stack, externs) == [stack |-> stack, externs |-> externs]

\* the `null` environment the assembler stores with an intrinsic
NullEnv == Env(<<>>, EmptyScope)

\* util.stack_lookup: the first scope, counted from the current stage, that
\* binds `ident`; [value, index], both undefined when no scope binds it
stack_lookup(mapstack, ident) ==
  LET hits == {i \in 1..Len(mapstack) : mapstack[i][ident] # undefined}
  IN IF hits = {}
     THEN [value |-> undefined, index |-> UndefIndex]
     ELSE LET i == CHOOSE i \in hits : \A j \in hits : i <= j
          IN [value |-> mapstack[i][ident], index |-> i - 1]

\* the environment `count` stages outward of `env`
te_pop(env, count) ==
  [env EXCEPT !.stack = SubSeq(env.stack, count + 1, Len(env.stack))]

\* the environment of a quotation's body: one fresh stage in front
te_push(env) == [env EXCEPT !.stack = <<EmptyScope>> \o env.stack]

\* the environment after `ident` is bound in the current stage
te_bind(env, ident, type) ==
  [env EXCEPT !.stack[1] = [@ EXCEPT ![ident] = type]]

\* The elaborator records [type, env] for every node of a stamped tree.  A
\* result carries the extended table, the environment after the node, the
\* node's type and whether every name resolved.

\* an escape may look outward at most as many stages as there are
ValidCount(tree, env) == tree.count >= 1 /\ tree.count < Len(env.stack)

\* the environment in which the children of `tree` are elaborated
inner_env(tree, env) ==
  CASE tree.tag = "quote" -> te_push(env)
    [] tree.tag = "escape" /\ ValidCount(tree, env) -> te_pop(env, tree.count)
    [] OTHER -> env

\* the type of a read of `ident`: a variable of some stage, else an extern
lookup_type(env, ident) ==
  IF stack_lookup(env.stack, ident).value # undefined
  THEN stack_lookup(env.stack, ident).value
  ELSE env.externs[ident]

\* the type of `tree`, whose children gave `r`
node_type(tree, env, r) ==
  CASE tree.tag = "lookup" -> lookup_type(env, tree.ident)
    [] tree.tag \in {"literal", "extern"} -> "Int"
    [] tree.tag = "fun" -> "Fun"
    [] tree.tag \in {"let", "seq"} -> r.type
    [] tree.tag = "escape" /\ tree.kind = "persist" -> r.type
    [] OTHER -> "Any"

\* the environment after `tree`
node_env(tree, env, r) ==
  CASE tree.tag = "let" -> te_bind(r.env, tree.ident, r.type)
    [] tree.tag = "extern" -> [env EXCEPT !.externs[tree.ident] = "Int"]
    [] tree.tag = "seq" -> r.env
    [] OTHER -> env

\* whether `tree` itself elaborates
node_ok(tree, env) ==
  CASE tree.tag = "lookup" -> lookup_type(env, tree.ident) # undefined
    [] tree.tag = "macrocall" ->
         stack_lookup(env.stack, tree.ident).value # undefined
    [] tree.tag = "escape" -> ValidCount(tree, env)
    [] OTHER -> TRUE

NoTable == <<>>

\* the state of the elaborator that enters a node in `env`
Entering(env, table) ==
  [table |-> table, env |-> env, type |-> "Any", ok |-> TRUE]

RECURSIVE elaborate(_, _, _)
RECURSIVE elaborate_kids(_, _, _)
elaborate_kids(kids, i, acc) ==
  IF i > Len(kids) THEN acc
  ELSE IF acc.ok
  THEN elaborate_kids(kids, i + 1, elaborate(kids[i], acc.env, acc.table))
  ELSE elaborate_kids(kids, i + 1,
         [elaborate(kids[i], acc.env, acc.table) EXCEPT !.ok = FALSE])
elaborate(tree, env, table) ==
  LET r == elaborate_kids(tree.kids, 1, Entering(inner_env(tree, env), table))
  IN [table |-> Store(r.table, tree.id,
                      [type |-> node_type(tree, env, r), env |-> env]),
      env |-> node_env(tree, env, r),
      type |-> node_type(tree, env, r),
      ok |-> r.ok /\ node_ok(tree, env)]

\* type_elaborate.elaborate_subtree: stamp the synthesized subtree with ids
\* from the end of the table and elaborate it in `initial_env`; a failure of
\* the elaborator is an exception
elaborate_subtree(tree, initial_env, type_table) ==
  LET stamped == stamp(tree, Length(type_table))
      r == elaborate(stamped, initial_env, type_table)
  IN IF r.ok
     THEN [tree |-> stamped, type_table |-> r.table, err |-> "none"]
     ELSE [tree |-> stamped, type_table |-> r.table, err |-> "type error"]

----------------------------------------------------------------------------
(* The desugaring passes (src/src/sugar.ts).  A pass returns the rewritten  *)
(* tree, the type table it updated in place, the number of calls it made   *)
(* to the elaborator and the exception that ended it ("none" when it        *)
(* returned).                                                              *)

Returned(tree, type_table, calls) ==
  [tree |-> tree, type_table |-> type_table, calls |-> calls, err |-> "none"]

\* visit.gen_translate / ast_translate_rules: the copy of `tree` in which the
\* rule for node `id` returned the elaborated subtree of `r`; every other
\* node is copied with its id
Translated(acc, id, r) ==
  LET swap(kids) ==
        [k \in 1..Len(kids) |-> IF kids[k] = id THEN r.tree.id ELSE kids[k]]
      copied == [n \in (DOMAIN acc.tree.nodes) \ {id} |->
                   [acc.tree.nodes[n] EXCEPT !.kids = swap(@)]]
  IN [tree |-> [root |-> IF acc.tree.root = id THEN r.tree.id
                         ELSE acc.tree.root,
                nodes |-> Graft(r.tree) @@ copied],
      type_table |-> r.type_table,
      calls |-> acc.calls + r.calls,
      err |-> r.err]

\* the nodes with one of `tags`, in the order the traversal reaches them:
\* the elaborator stamps the tree handed to the desugarer in pre-order
Visited(tree, tags) ==
  Ascending({id \in DOMAIN tree.nodes : tree.nodes[id].tag \in tags})

\* sugar.ts:26-32: the stage index of the name a lookup node reads
lookup_index(tree, type_table) ==
  stack_lookup(type_table[tree.id].env.stack, tree.ident).index

\* is_extern_access that finds no name among the externs
is_extern_access_never(tree, type_table) == FALSE

\* sugar.ts:26-30: `tree.ident in env.externs`, extern accesses are not
\* desugared
is_extern_access(tree, type_table) ==
  type_table[tree.id].env.externs[tree.ident] # undefined

\* is_normal_access without the test `index === 0`
is_normal_access_no_stage_test(tree, type_table) ==
  \/ tree.tag # "lookup"
  \/ type_table[tree.id].env.externs[tree.ident] # undefined

\* sugar.ts:25-37: the nodes gen_desugar_cross_stage hands to fsuper: every
\* node but a lookup, an extern access, a variable of the current stage
is_normal_access(tree, type_table) ==
  \/ tree.tag # "lookup"
  \/ is_extern_access(tree, type_table)
  \/ lookup_index(tree, type_table) = 0

\* auto_persist with an escape that always looks up one stage
auto_persist_one_stage(tree, type_table) ==
  LET env == type_table[tree.id].env
      lookup == LookupNode(tree.ident)
      escape == EscapeNode("persist", lookup, 1)
      elaborated == elaborate_subtree(escape, env, type_table)
  IN [tree |-> elaborated.tree, type_table |-> elaborated.type_table,
      calls |-> 1, err |-> elaborated.err]

\* sugar.ts:38-53: a variable from any other stage is an auto-persist
auto_persist(tree, type_table) ==
  LET env == type_table[tree.id].env
      lookup == LookupNode(tree.ident)
      escape == EscapeNode("persist", lookup, lookup_index(tree, type_table))
      elaborated == elaborate_subtree(escape, env, type_table)
  IN [tree |-> elaborated.tree, type_table |-> elaborated.type_table,
      calls |-> 1, err |-> elaborated.err]

\* sugar.gen_desugar_cross_stage composed with visit.gen_translate (fsuper):
\* the lookups are visited in order, every other node is copied, and an
\* exception ends the traversal
RECURSIVE gen_desugar_cross_stage(_, _, _)
gen_desugar_cross_stage(order, i, acc) ==
  IF i > Len(order) \/ acc.err # "none" THEN acc
  ELSE LET tree == acc.tree.nodes[order[i]]
       IN gen_desugar_cross_stage(order, i + 1,
            IF is_normal_access(tree, acc.type_table) THEN acc
            ELSE Translated(acc, tree.id, auto_persist(tree, acc.type_table)))

desugar_cross_stage(tree, type_table) ==
  gen_desugar_cross_stage(Visited(tree, {"lookup"}), 1,
                          Returned(tree, type_table, 0))

\* visit_macrocall without the escape around the call
visit_macrocall_unwrapped(tree, type_table) ==
  LET env == type_table[tree.id].env
      call == CallNode(LookupNode(tree.ident), <<>>)
      elaborated == elaborate_subtree(call, env, type_table)
  IN [tree |-> elaborated.tree, type_table |-> elaborated.type_table,
      calls |-> 1, err |-> elaborated.err]

\* sugar.ts:80-108: visit_macrocall
visit_macrocall(tree, type_table) ==
  LET env == type_table[tree.id].env
      index == stack_lookup(env.stack, tree.ident).index
      call == CallNode(LookupNode(tree.ident), <<>>)
      out == IF index > 0 THEN EscapeNode("splice", call, index) ELSE call
      elaborated == elaborate_subtree(out, env, type_table)
  IN [tree |-> elaborated.tree, type_table |-> elaborated.type_table,
      calls |-> 1, err |-> elaborated.err]

\* sugar._desugar_macros: visit_macrocall over ast_translate_rules
RECURSIVE _desugar_macros(_, _, _)
_desugar_macros(order, i, acc) ==
  IF i > Len(order) \/ acc.err # "none" THEN acc
  ELSE LET tree == acc.tree.nodes[order[i]]
       IN _desugar_macros(order, i + 1,
            Translated(acc, tree.id, visit_macrocall(tree, acc.type_table)))

desugar_macros(tree, type_table) ==
  _desugar_macros(Visited(tree, {"macrocall"}), 1,
                  Returned(tree, type_table, 0))

----------------------------------------------------------------------------
(* The IR assembler (src/src/sugar.ts:126-220).                            *)

\* push_quoted that starts a list for an id that has none
push_quoted_create(acc, quote_id, id) ==
  IF quote_id \in DOMAIN acc.quoted
  THEN [acc EXCEPT !.quoted[quote_id] = Append(@, id)]
  ELSE [acc EXCEPT !.quoted = (quote_id :> <<id>>) @@ @]

\* sugar.ts:148: `quoted[quote_id].push(proc.id)`; the push on `undefined`
\* is a TypeError
push_quoted(acc, quote_id, id) ==
  IF quote_id \in DOMAIN acc.quoted
  THEN [acc EXCEPT !.quoted[quote_id] = Append(@, id)]
  ELSE [acc EXCEPT !.err = "TypeError"]

\* insert_procs with the test `!quote_id` for a proc of the top level
RECURSIVE insert_procs_falsy(_, _, _, _)
insert_procs_falsy(procs_, order, i, acc) ==
  IF i > Len(order) \/ acc.err # "none" THEN acc
  ELSE LET proc == procs_[order[i]]
           quote_id == proc.quote_parent
       IN IF quote_id = null \/ quote_id = 0
          THEN insert_procs_falsy(procs_, order, i + 1,
                 [acc EXCEPT !.toplevel = Append(@, proc.id)])
          ELSE IF quote_id \in DOMAIN acc.quoted
          THEN insert_procs_falsy(procs_, order, i + 1,
                 [acc EXCEPT !.quoted[quote_id] = Append(@, proc.id)])
          ELSE [acc EXCEPT !.err = "TypeError"]

\* sugar.group_by_prog, lines 140-151: insert each proc where it goes; err
\* is the exception that ended the loop
RECURSIVE insert_procs(_, _, _, _)
insert_procs(procs_, order, i, acc) ==
  IF i > Len(order) \/ acc.err # "none" THEN acc
  ELSE LET proc == procs_[order[i]]
           quote_id == proc.quote_parent
       IN IF quote_id = null
          THEN insert_procs(procs_, order, i + 1,
                 [acc EXCEPT !.toplevel = Append(@, proc.id)])
          ELSE insert_procs(procs_, order, i + 1,
                 push_quoted(acc, quote_id, proc.id))

\* sugar.group_by_prog
group_by_prog(procs_, progs_) ==
  LET quoted0 == [id \in {progs_[i].id : i \in DOMAIN progs_} |-> <<>>]
  IN insert_procs(procs_, Ascending(DOMAIN procs_), 1,
       [toplevel |-> <<>>, quoted |-> quoted0, err |-> "none"])

\* extern_name that ignores the expansion
extern_name_declared(tree) == tree.ident

\* sugar.gen_find_externs, visit_extern: `tree.expansion || tree.name`
extern_name(tree) ==
  IF tree.expansion \in {undefined, ""} THEN tree.ident ELSE tree.expansion

\* sugar.find_externs: the fold over the tree, one entry per extern node
find_externs(tree, externs_) ==
  [id \in {n \in DOMAIN tree.nodes : tree.nodes[n].tag = "extern"} |->
     extern_name(tree.nodes[id])] @@ externs_

\* register_from with `type_table.length - 1` as the id
RECURSIVE register_from_last(_, _, _)
register_from_last(names, i, acc) ==
  IF i > Len(names) THEN acc
  ELSE LET id == Length(acc.type_table) - 1
       IN register_from_last(names, i + 1,
            [type_table |-> Store(acc.type_table, id,
                              [type |-> "Any", env |-> NullEnv]),
             intrinsics_map |-> Store(acc.intrinsics_map, names[i], id)])

\* semantically_analyze, lines 179-184: give ids to the intrinsics and add
\* them to the type table; `names` is the iteration order of `intrinsics`
RECURSIVE register_from(_, _, _)
register_from(names, i, acc) ==
  IF i > Len(names) THEN acc
  ELSE LET id == Length(acc.type_table)
       IN register_from(names, i + 1,
            [type_table |-> Store(acc.type_table, id,
                              [type |-> "Any", env |-> NullEnv]),
             intrinsics_map |-> Store(acc.intrinsics_map, names[i], id)])
register_intrinsics(names, type_table_) ==
  register_from(names, 1,
    [type_table |-> type_table_, intrinsics_map |-> <<>>])

\* add_from with a loop that stops one intrinsic early
RECURSIVE add_from_early(_, _, _, _)
add_from_early(names, i, intrinsics_map_, externs_) ==
  IF i >= Len(names) THEN externs_
  ELSE add_from_early(names, i + 1, intrinsics_map_,
         Store(externs_, intrinsics_map_[names[i]], names[i]))

\* semantically_analyze, lines 197-200: add the intrinsics to the extern map
RECURSIVE add_from(_, _, _, _)
add_from(names, i, intrinsics_map_, externs_) ==
  IF i > Len(names) THEN externs_
  ELSE add_from(names, i + 1, intrinsics_map_,
         Store(externs_, intrinsics_map_[names[i]], names[i]))
add_intrinsics(names, intrinsics_map_, externs_) ==
  add_from(names, 1, intrinsics_map_, externs_)

\* scope.find_scopes: one scope per function body and per quotation body
find_scopes(tree) ==
  {id \in DOMAIN tree.nodes : tree.nodes[id].tag \in {"fun", "quote"}}

\* defuse.find_def_use: the variable reads the resolver records
find_def_use(tree, intrinsics_map_) ==
  {id \in DOMAIN tree.nodes : tree.nodes[id].tag = "lookup"}

\* the nearest quotation that encloses node `id`, null at the top level
RECURSIVE quote_parent_of(_, _)
quote_parent_of(tree, id) ==
  LET p == Parent(tree, id)
  IN IF p = null THEN null
     ELSE IF tree.nodes[p].tag = "quote" THEN p
     ELSE quote_parent_of(tree, p)

\* lift.lift: a Proc per function and a Prog per quotation, by id, with the
\* links of the quote hierarchy
lift(tree) ==
  LET funs == {id \in DOMAIN tree.nodes : tree.nodes[id].tag = "fun"}
      quotes == {id \in DOMAIN tree.nodes : tree.nodes[id].tag = "quote"}
      up == [id \in funs \cup quotes |-> quote_parent_of(tree, id)]
  IN [procs |-> [id \in funs |-> [id |-> id, quote_parent |-> up[id]]],
      progs |-> [id \in quotes |->
                   [id |-> id, annotation |-> "", quote_parent |-> up[id],
                    quote_children |->
                      Ascending({q \in quotes : up[q] = id})]]]

----------------------------------------------------------------------------
(* The programs handed to the desugarer.  A program is `depth` nested       *)
(* quotations; stage i binds the names lets[i] and the innermost stage      *)
(* holds the expressions `body`.  p = [depth, lets, body, ext].             *)

NameOrder == <<"x", "m">>

\* `let x = 0` and `let m = fun -> 0`
LetOf(name) ==
  IF name = "m" THEN LetNode("m", FunNode(LiteralNode))
  ELSE LetNode(name, LiteralNode)

\* the type the elaborator gives to the name of LetOf(name)
LetType(name) == IF name = "m" THEN "Fun" ELSE "Int"

\* the lets of the names of `bound`, in the order of NameOrder
Lets(bound) ==
  SelectSeq([i \in 1..Len(NameOrder) |-> LetOf(NameOrder[i])],
            LAMBDA l : l.ident \in bound)

\* the expressions of stage i, but for its quotation
Exprs(p, i) == Lets(p.lets[i]) \o (IF i = p.depth THEN p.body ELSE <<>>)

\* whether the block of stage i is a sequence `e1; e2; ...`
IsSeq(p, i) == Len(Exprs(p, i)) + (IF i = p.depth THEN 0 ELSE 1) > 1

\* the number of nodes of stage i, its quotation node included
StageSize(p, i) ==
  (IF IsSeq(p, i) THEN 1 ELSE 0) + SumSizes(Exprs(p, i), 1)
    + (IF i = p.depth THEN 0 ELSE 1)

\* pre-order ids: the block of stage i starts where stage i - 1 ends
RECURSIVE StageStart(_, _)
StageStart(p, i) ==
  IF i = 0 THEN 0 ELSE StageStart(p, i - 1) + StageSize(p, i - 1)

\* the stamped expressions of stage i
Stamped(p, i) ==
  stamp_kids(Exprs(p, i), 1,
             StageStart(p, i) + (IF IsSeq(p, i) THEN 1 ELSE 0))

\* the id of the quotation of stage i < depth: its last node
QuoteId(p, i) == StageStart(p, i + 1) - 1

\* the heap nodes of stage i
StageNodes(p, i) ==
  LET exprs == Stamped(p, i)
      kids == [k \in 1..Len(exprs) |-> exprs[k].id]
                \o (IF i = p.depth THEN <<>> ELSE <<QuoteId(p, i)>>)
  IN UNION {{Link(n) : n \in Nodes(exprs[k])} : k \in 1..Len(exprs)}
       \cup (IF IsSeq(p, i)
             THEN {[SeqNode(kids) EXCEPT !.id = StageStart(p, i)]}
             ELSE {})
       \cup (IF i = p.depth THEN {}
             ELSE {[QuoteNode(StageStart(p, i + 1))
                      EXCEPT !.id = QuoteId(p, i)]})

\* the stamped program
Program(p) ==
  [root |-> 0, nodes |-> Table(UNION {StageNodes(p, i) : i \in 0..p.depth})]

\* the scope of stage i once all its lets are bound
FullScope(p, i) ==
  [n \in Names |-> IF n \in p.lets[i] THEN LetType(n) ELSE undefined]

\* the environment in which the block of stage i is elaborated
StageEnv(p, i) ==
  Env(<<EmptyScope>> \o [k \in 1..i |-> FullScope(p, i - k)], p.ext)

\* the [id, type, env] entries the elaborator records for stage i
StageEntries(p, i) ==
  LET r == elaborate_kids(Stamped(p, i), 1, Entering(StageEnv(p, i), NoTable))
  IN {[id |-> k, type |-> r.table[k].type, env |-> r.table[k].env] :
        k \in DOMAIN r.table}
       \cup (IF IsSeq(p, i)
             THEN {[id |-> StageStart(p, i),
                    type |-> IF i = p.depth THEN r.type ELSE "Any",
                    env |-> StageEnv(p, i)]}
             ELSE {})
       \cup (IF i = p.depth THEN {}
             ELSE {[id |-> QuoteId(p, i), type |-> "Any", env |-> r.env]})

\* the type table of the elaborated program
Elaborated(p) ==
  LET all == Table(UNION {StageEntries(p, i) : i \in 0..p.depth})
  IN [id \in DOMAIN all |-> [type |-> all[id].type, env |-> all[id].env]]

Leaves ==
  {LookupNode("x"), MacroCallNode("m"), FunNode(LookupNode("x")),
   ExternNode("x", undefined), ExternNode("x", "gl_x"),
   EscapeNode("persist", LookupNode("x"), 1)}

LastLeaves == {LookupNode("x"), MacroCallNode("m")}

Bodies == {<<a>> : a \in Leaves} \cup (Leaves \X LastLeaves)

\* the externs a program starts with
ExternMaps ==
  {EmptyScope, [EmptyScope EXCEPT !["x"] = "Int"],
   [EmptyScope EXCEPT !["m"] = "Fun"]}

\* the programs of nesting depth `depth`
Programs(depth) ==
  [depth : {depth}, lets : [0..depth -> SUBSET Names], body : Bodies,
   ext : ExternMaps]

IntrinsicLists == {<<>>, <<"vtx", "frag">>}

----------------------------------------------------------------------------
(* The compilation pipeline as a state machine.                            *)

VARIABLES
  pc,              \* the next step of the compilation
  input,           \* [tree, type_table] handed to the pass that ran last
  tree,            \* the current syntax tree
  type_table,      \* the type table, shared by all passes
  err,             \* the exception that aborted the compilation, or "none"
  elab_calls,      \* calls of elaborate_subtree made by the pass that ran last
  steps,           \* the passes and assembler steps taken so far
  intrinsics,      \* the names of the intrinsics, in iteration order
  intrinsics_map,  \* semantically_analyze: name -> reserved id
  scopes,          \* result of find_scopes
  defuse,          \* result of find_def_use
  externs,         \* the extern table
  procs,           \* the Procs, indexed by id
  progs,           \* the Progs, indexed by id
  grouped,         \* result of group_by_prog
  ir,              \* the packaged CompilerIR
  progid,          \* the Prog the backend was last asked about
  kind,            \* result of prog_kind
  shader           \* result of compile_prog

vars == <<pc, input, tree, type_table, err, elab_calls, steps, intrinsics,
          intrinsics_map, scopes, defuse, externs, procs, progs, grouped, ir,
          progid, kind, shader>>

NoTree == [root |-> null, nodes |-> NoTable]
NoResult == [toplevel |-> <<>>, quoted |-> <<>>, err |-> "none"]
NoShader == [err |-> "none", out |-> <<>>]

Desugarer == <<input, tree, elab_calls>>
Analysis == <<intrinsics, intrinsics_map, scopes, defuse, externs,
              procs, progs, grouped, ir>>
Backend == <<progid, kind, shader>>

\* nothing analysed yet
NoAnalysis ==
  /\ intrinsics = <<>>
  /\ intrinsics_map = NoTable
  /\ scopes = {}
  /\ defuse = {}
  /\ externs = NoTable
  /\ procs = NoTable
  /\ progs = NoTable
  /\ grouped = NoResult
  /\ ir = NoTable

\* no backend asked yet
NoBackend ==
  /\ progid = null
  /\ kind = "none"
  /\ shader = NoShader

\* The elaborated program handed to the desugarer: every node has an id and
\* a [type, env] entry.  Programs with a name no scope binds are included.
Init ==
  /\ pc = "desugar_cross_stage"
  /\ \E depth \in 0..MaxDepth : \E p \in Programs(depth) :
       /\ tree = Program(p)
       /\ type_table = Elaborated(p)
  /\ input = [tree |-> tree, type_table |-> type_table]
  /\ err = "none"
  /\ elab_calls = 0
  /\ steps = <<>>
  /\ NoAnalysis
  /\ NoBackend

\* --- the desugarer ---

RunPass(name, result, next) ==
  /\ steps' = Append(steps, name)
  /\ input' = [tree |-> tree, type_table |-> type_table]
  /\ type_table' = result.type_table
  /\ elab_calls' = result.calls
  /\ err' = result.err
  /\ IF result.err = "none"
     THEN tree' = result.tree /\ pc' = next
     ELSE tree' = tree /\ pc' = "aborted"

DesugarCrossStage ==
  /\ pc = "desugar_cross_stage"
  /\ RunPass("desugar_cross_stage", desugar_cross_stage(tree, type_table),
             "desugar_macros")
  /\ UNCHANGED <<Analysis, Backend>>

DesugarMacros ==
  /\ pc = "desugar_macros"
  /\ RunPass("desugar_macros", desugar_macros(tree, type_table),
             "semantically_analyze")
  /\ UNCHANGED <<Analysis, Backend>>

\* --- semantically_analyze, one action per statement ---

Step(name, next) ==
  /\ steps' = Append(steps, name)
  /\ pc' = next
  /\ UNCHANGED <<Desugarer, Backend>>

RegisterIntrinsics ==
  /\ pc = "semantically_analyze"
  /\ \E names \in IntrinsicLists :
       LET r == register_intrinsics(names, type_table)
       IN /\ intrinsics' = names
          /\ type_table' = r.type_table
          /\ intrinsics_map' = r.intrinsics_map
  /\ Step("intrinsics", "find_scopes")
  /\ UNCHANGED <<err, scopes, defuse, externs, procs, progs, grouped, ir>>

FindScopes ==
  /\ pc = "find_scopes"
  /\ scopes' = find_scopes(tree)
  /\ Step("find_scopes", "find_def_use")
  /\ UNCHANGED <<type_table, err, intrinsics, intrinsics_map, defuse, externs,
                 procs, progs, grouped, ir>>

FindDefUse ==
  /\ pc = "find_def_use"
  /\ defuse' = find_def_use(tree, intrinsics_map)
  /\ Step("find_def_use", "find_externs")
  /\ UNCHANGED <<type_table, err, intrinsics, intrinsics_map, scopes, externs,
                 procs, progs, grouped, ir>>

FindExterns ==
  /\ pc = "find_externs"
  /\ externs' = find_externs(tree, NoTable)
  /\ Step("find_externs", "add_intrinsics")
  /\ UNCHANGED <<type_table, err, intrinsics, intrinsics_map, scopes, defuse,
                 procs, progs, grouped, ir>>

AddIntrinsics ==
  /\ pc = "add_intrinsics"
  /\ externs' = add_intrinsics(intrinsics, intrinsics_map, externs)
  /\ Step("add_intrinsics", "lift")
  /\ UNCHANGED <<type_table, err, intrinsics, intrinsics_map, scopes, defuse,
                 procs, progs, grouped, ir>>

Lift ==
  /\ pc = "lift"
  /\ procs' = lift(tree).procs
  /\ progs' = lift(tree).progs
  /\ Step("lift", "group_by_prog")
  /\ UNCHANGED <<type_table, err, intrinsics, intrinsics_map, scopes, defuse,
                 externs, grouped, ir>>

GroupByProg ==
  /\ pc = "group_by_prog"
  /\ grouped' = group_by_prog(procs, progs)
  /\ err' = grouped'.err
  /\ Step("group_by_prog", IF grouped'.err = "none" THEN "package"
                           ELSE "aborted")
  /\ UNCHANGED <<type_table, intrinsics, intrinsics_map, scopes, defuse,
                 externs, procs, progs, ir>>

Package ==
  /\ pc = "package"
  /\ ir' = [defuse |-> defuse, procs |-> procs, progs |-> progs,
            toplevel_procs |-> grouped.toplevel,
            quoted_procs |-> grouped.quoted,
            type_table |-> type_table, externs |-> externs,
            scopes |-> scopes]
  /\ Step("package", "done")
  /\ UNCHANGED <<type_table, err, intrinsics, intrinsics_map, scopes, defuse,
                 externs, procs, progs, grouped>>

Next ==
  \/ DesugarCrossStage
  \/ DesugarMacros
  \/ RegisterIntrinsics
  \/ FindScopes
  \/ FindDefUse
  \/ FindExterns
  \/ AddIntrinsics
  \/ Lift
  \/ GroupByProg
  \/ Package

Spec == Init /\ [][Next]_vars

----------------------------------------------------------------------------
(* Properties of the desugarer.                                            *)

Last(seq) == seq[Len(seq)]

\* the pass or step `name` has just run
After(name) == steps # <<>> /\ Last(steps) = name

\* stage distance of `ident`: the number of stages outward of the current
\* one at which it is bound, or UndefIndex when no stage binds it
StageDistance(env, ident) ==
  IF \A i \in 1..Len(env.stack) : env.stack[i][ident] = undefined
  THEN UndefIndex
  ELSE CHOOSE k \in 0..(Len(env.stack) - 1) :
         /\ env.stack[k + 1][ident] # undefined
         /\ \A j \in 0..(k - 1) : env.stack[j + 1][ident] = undefined

\* the nodes of the tree handed to the pass that ran last, with a tag
InputNodes(tag) ==
  {id \in DOMAIN input.tree.nodes : input.tree.nodes[id].tag = tag}

\* the environment captured for node `id` before the pass ran
Captured(id) == input.type_table[id].env

\* the stage distance of the name node `id` carries, as captured
Distance(id) == StageDistance(Captured(id), input.tree.nodes[id].ident)

\* the reads that auto-persist is about: not an extern, k > 0 stages outward
CrossStageRead(id) ==
  /\ input.tree.nodes[id].tag = "lookup"
  /\ Captured(id).externs[input.tree.nodes[id].ident] = undefined
  /\ Distance(id) > 0

\* the node of the pass's output that stands where `id` stood in its input
Standing(id) ==
  IF id = input.tree.root THEN tree.nodes[tree.root]
  ELSE LET p == Parent(input.tree, id)
           k == CHOOSE k \in 1..Len(input.tree.nodes[p].kids) :
                  input.tree.nodes[p].kids[k] = id
       IN tree.nodes[tree.nodes[p].kids[k]]

\* node `n` of the output is a plain read of `ident`
IsReadOf(n, ident) ==
  n.tag = "lookup" /\ n.ident = ident /\ n.kids = <<>>

\* node `n` of the output was synthesized by the pass and elaborated in `env`
Synthesized(n, env) ==
  /\ n.id \notin DOMAIN input.type_table
  /\ n.id \notin DOMAIN input.tree.nodes
  /\ n.id \in DOMAIN type_table
  /\ type_table[n.id].env = env

\* node `e` of the output is a persist escape with count `k` around a read of
\* `ident` that finds the name in its own stage
IsPersistOf(e, ident, k) ==
  /\ e.tag = "escape"
  /\ e.kind = "persist"
  /\ e.count = k
  /\ Len(e.kids) = 1
  /\ IsReadOf(tree.nodes[e.kids[1]], ident)
  /\ e.kids[1] \in DOMAIN type_table
  /\ StageDistance(type_table[e.kids[1]].env, ident) = 0

PersistEscapes ==
  {id \in DOMAIN tree.nodes :
     tree.nodes[id].tag = "escape" /\ tree.nodes[id].kind = "persist"}

\* `let x = 0; < x >` with x not an extern: one top-level quotation reading
\* one outer-stage variable
Scenario1 ==
  LET p == [depth |-> 1, lets |-> (0 :> {"x"}) @@ (1 :> {}),
            body |-> <<LookupNode("x")>>, ext |-> EmptyScope]
  IN input = [tree |-> Program(p), type_table |-> Elaborated(p)]

\* C2: after desugar_cross_stage returns, every non-extern read whose name
\* is k > 0 stages outward has been replaced by a persist escape with count k
\* around a read of the same name, elaborated in the environment captured for
\* the original read; the single-quotation scenario yields exactly one persist
\* escape, with count 1, around a read of x.
C2_AutoPersist ==
  (After("desugar_cross_stage") /\ err = "none") =>
    /\ \A id \in InputNodes("lookup") :
         CrossStageRead(id) =>
           /\ id \notin DOMAIN tree.nodes
           /\ IsPersistOf(Standing(id), input.tree.nodes[id].ident,
                          Distance(id))
           /\ Synthesized(Standing(id), Captured(id))
    /\ Scenario1 =>
         /\ Cardinality(PersistEscapes) = 1
         /\ \A e \in PersistEscapes :
              IsPersistOf(tree.nodes[e], "x", 1)

\* a read two stages outward was rewritten
C2_Witness ==
  /\ After("desugar_cross_stage")
  /\ err = "none"
  /\ \E id \in InputNodes("lookup") :
       /\ CrossStageRead(id)
       /\ Distance(id) = 2
       /\ Standing(id).count = 2

\* the reads of an extern: the name is an extern in the captured environment
ExternRead(id) ==
  /\ input.tree.nodes[id].tag = "lookup"
  /\ Captured(id).externs[input.tree.nodes[id].ident] # undefined

\* C12: desugar_cross_stage leaves every read of an extern as the plain read
\* it was, whatever the stage distance of the name, with its entry of the
\* type table as it was, and calls the elaborator for no such read: it makes
\* at most one call per read that is not of an extern, and none when every
\* read is of an extern.
C12_ExternsNotPersisted ==
  After("desugar_cross_stage") =>
    /\ \A id \in InputNodes("lookup") :
         ExternRead(id) =>
           /\ id \in DOMAIN tree.nodes
           /\ tree.nodes[id] = input.tree.nodes[id]
           /\ IsReadOf(Standing(id), input.tree.nodes[id].ident)
           /\ Standing(id).id = id
           /\ type_table[id] = input.type_table[id]
    /\ elab_calls
         <= Cardinality({id \in InputNodes("lookup") : ~ExternRead(id)})
    /\ (\A id \in InputNodes("lookup") : ExternRead(id)) =>
         /\ err = "none"
         /\ tree = input.tree
         /\ type_table = input.type_table

\* a read of an extern that is also bound two stages outward was left alone
C12_Witness ==
  /\ After("desugar_cross_stage")
  /\ err = "none"
  /\ \E id \in InputNodes("lookup") :
       /\ ExternRead(id)
       /\ Distance(id) = 2
       /\ IsReadOf(Standing(id), "x")
  /\ elab_calls = 0

\* every variable read of the pass's input has stage distance 0
AllStageZero == \A id \in InputNodes("lookup") : Distance(id) = 0

\* C3: when every variable read has stage distance 0, desugar_cross_stage
\* returns its input unchanged, calls the elaborator zero times and leaves
\* the type table unchanged.
C3_StageZeroInvariance ==
  (After("desugar_cross_stage") /\ AllStageZero) =>
    /\ err = "none"
    /\ tree = input.tree
    /\ elab_calls = 0
    /\ type_table = input.type_table

\* a stage-0 read inside a quotation of a name that an outer stage binds too
C3_Witness ==
  /\ After("desugar_cross_stage")
  /\ AllStageZero
  /\ tree = input.tree
  /\ \E id \in InputNodes("lookup") :
       /\ Len(Captured(id).stack) > 1
       /\ Captured(id).stack[2][input.tree.nodes[id].ident] # undefined

\* the nodes around node `id` of the pass's input
RECURSIVE Ancestors(_)
Ancestors(id) ==
  LET p == Parent(input.tree, id)
  IN IF p = null THEN {} ELSE {p} \cup Ancestors(p)

\* the number of quotations around node `id` of the pass's input
QuoteDepth(id) ==
  Cardinality({a \in Ancestors(id) : input.tree.nodes[a].tag = "quote"})

\* the lets of `ident` that node `id` is in the scope of
Definitions(id, ident) ==
  {l \in InputNodes("let") :
     /\ input.tree.nodes[l].ident = ident
     /\ l < id
     /\ Parent(input.tree, l) \in Ancestors(id)}

\* the quotation nesting depth between node `id` and the nearest definition
\* of `ident`
NestingDepth(id, ident) ==
  LET defs == {QuoteDepth(l) : l \in Definitions(id, ident)}
  IN QuoteDepth(id) - Max(defs)

\* node `c` of the output is a call with zero arguments of a read of `ident`
IsCallOf(c, ident) ==
  /\ c.tag = "call"
  /\ Len(c.kids) = 1
  /\ IsReadOf(tree.nodes[c.kids[1]], ident)

\* node `e` of the output is one splice escape with count `k` around a call
\* of `ident`
IsSpliceOf(e, ident, k) ==
  /\ e.tag = "escape"
  /\ e.kind = "splice"
  /\ e.count = k
  /\ Len(e.kids) = 1
  /\ IsCallOf(tree.nodes[e.kids[1]], ident)

\* C4: after desugar_macros returns, every macro invocation has been replaced
\* by a zero-argument call of a read of the macro's name, elaborated in the
\* invocation's environment: unwrapped when the name's stage distance is 0,
\* inside exactly one splice escape with count k when it is k > 0, where k is
\* the quotation nesting depth between definition and use; no macro
\* invocation remains.
C4_MacroExpansion ==
  (After("desugar_macros") /\ err = "none") =>
    /\ \A id \in InputNodes("macrocall") :
         LET macro == input.tree.nodes[id].ident
             out == Standing(id)
         IN /\ id \notin DOMAIN tree.nodes
            /\ Synthesized(out, Captured(id))
            /\ IsCallOf(out, macro) \/ IsSpliceOf(out, macro, out.count)
            /\ Distance(id) = 0 => IsCallOf(out, macro)
            /\ Distance(id) > 0 =>
                 /\ IsSpliceOf(out, macro, Distance(id))
                 /\ Distance(id) = NestingDepth(id, macro)
    /\ \A id \in DOMAIN tree.nodes : tree.nodes[id].tag # "macrocall"

\* a macro defined two quotations outward of its invocation was expanded
C4_Witness ==
  /\ After("desugar_macros")
  /\ err = "none"
  /\ \E id \in InputNodes("macrocall") :
       /\ Distance(id) = 2
       /\ NestingDepth(id, "m") = 2
       /\ Standing(id).tag = "escape"
       /\ Standing(id).count = 2

\* the pass that ran last looked up, at a node with `tag`, a name that no
\* scope of the captured stage environment binds
Unresolved(tag) ==
  \E id \in InputNodes(tag) :
    /\ Distance(id) = UndefIndex
    /\ tag = "lookup" =>
         Captured(id).externs[input.tree.nodes[id].ident] = undefined

\* C5: a pass that looks up a name no scope of the stage environment binds
\* aborts with an error and returns no rewritten tree.
C5_StageResolutionError ==
  /\ (After("desugar_cross_stage") /\ Unresolved("lookup")) =>
       (err # "none" /\ pc = "aborted" /\ tree = input.tree)
  /\ (After("desugar_macros") /\ Unresolved("macrocall")) =>
       (err # "none" /\ pc = "aborted" /\ tree = input.tree)

----------------------------------------------------------------------------
(* Properties of the assembler.                                            *)

\* the ids semantically_analyze reserved for the intrinsics
IntrinsicIds == {intrinsics_map[n] : n \in DOMAIN intrinsics_map}

\* C6: in every step of a compilation the keys of the type table only grow
\* and the entry of an existing key stays as it is; the registration of the
\* intrinsics stores each one under the length the table has at that moment,
\* so their keys are distinct and greater than every key present before.
C6_TypeTableMonotone ==
  [][/\ DOMAIN type_table \subseteq DOMAIN type_table'
     /\ \A id \in DOMAIN type_table : type_table'[id] = type_table[id]
     /\ pc = "semantically_analyze" =>
          /\ DOMAIN intrinsics_map' = {intrinsics'[i] : i \in 1..Len(intrinsics')}
          /\ \A i \in 1..Len(intrinsics') :
               LET id == intrinsics_map'[intrinsics'[i]]
               IN /\ id = Length(type_table) + i - 1
                  /\ id \notin DOMAIN type_table
                  /\ \A k \in DOMAIN type_table : id > k
                  /\ id \in DOMAIN type_table'
                  /\ \A j \in 1..Len(intrinsics') :
                       j # i => intrinsics_map'[intrinsics'[j]] # id
          /\ DOMAIN type_table' =
               DOMAIN type_table
                 \cup {intrinsics_map'[n] : n \in DOMAIN intrinsics_map'}
    ]_vars

\* two intrinsics were registered after both passes added nodes
C6_Witness ==
  /\ After("intrinsics")
  /\ Len(intrinsics) = 2
  /\ IntrinsicIds = {Length(type_table) - 2, Length(type_table) - 1}
  /\ elab_calls > 0
  /\ Cardinality(DOMAIN type_table)
       > Cardinality(DOMAIN input.type_table) + 2

\* the order of the statements of semantically_analyze
AssemblerOrder ==
  <<"intrinsics", "find_scopes", "find_def_use", "find_externs",
    "add_intrinsics", "lift", "group_by_prog", "package">>

\* the steps taken so far, without the desugaring passes
AssemblerSteps ==
  SelectSeq(steps, LAMBDA name :
    name \notin {"desugar_cross_stage", "desugar_macros"})

\* seq `a` is a prefix of seq `b`
IsPrefix(a, b) == Len(a) <= Len(b) /\ a = SubSeq(b, 1, Len(a))

\* every intrinsic is in the extern table, under its reserved id
IntrinsicsInExterns ==
  \A n \in DOMAIN intrinsics_map :
    /\ intrinsics_map[n] \in DOMAIN externs
    /\ externs[intrinsics_map[n]] = n

\* every intrinsic is in the type table, under its reserved id
IntrinsicsInTypeTable ==
  \A n \in DOMAIN intrinsics_map : intrinsics_map[n] \in DOMAIN type_table

\* C7, as claimed: the steps of semantically_analyze happen in the order
\* intrinsics (type table and extern table), Scope Builder, Def-Use Resolver
\* and Extern Collector, Lifter, grouping, package, and the intrinsics are in
\* the extern table before the Extern Collector analyses user code.
C7_AssemblerOrdering ==
  /\ IsPrefix(AssemblerSteps, AssemblerOrder)
  /\ pc \in {"find_scopes", "find_def_use", "find_externs"} =>
       (IntrinsicsInTypeTable /\ IntrinsicsInExterns)

\* C7, amended: the steps happen in the order intrinsics (type table only),
\* Scope Builder, Def-Use Resolver, Extern Collector, intrinsics into the
\* extern table, Lifter, grouping, package; the Extern Collector starts from
\* an empty extern table and the intrinsics are in the extern table from the
\* step after it on.
C7_AssemblerOrderingAmended ==
  /\ IsPrefix(AssemblerSteps, AssemblerOrder)
  /\ pc \in {"find_scopes", "find_def_use", "find_externs"} =>
       (IntrinsicsInTypeTable /\ externs = NoTable)
  /\ pc = "add_intrinsics" =>
       /\ IntrinsicsInTypeTable
       /\ DOMAIN externs = {id \in DOMAIN tree.nodes :
                              tree.nodes[id].tag = "extern"}
       /\ IntrinsicIds \cap DOMAIN externs = {}
  /\ pc \in {"lift", "group_by_prog", "package", "done"} =>
       /\ IntrinsicsInTypeTable
       /\ IntrinsicsInExterns
       /\ DOMAIN externs = IntrinsicIds \cup
            {id \in DOMAIN tree.nodes : tree.nodes[id].tag = "extern"}

\* a program with an extern and two intrinsics was packaged
C7_Witness ==
  /\ pc = "done"
  /\ AssemblerSteps = AssemblerOrder
  /\ Len(intrinsics) = 2
  /\ IntrinsicsInExterns
  /\ Cardinality(DOMAIN externs) = 3

\* the extern nodes of the analysed tree
ExternIds == {id \in DOMAIN tree.nodes : tree.nodes[id].tag = "extern"}

----------------------------------------------------------------------------
(* The GLSL backend (src/Makefile:195-644, backends/glsl.ts).  A result     *)
(* carries the exception that ended the call ("none" when it returned).     *)

\* type.ts: a PrimitiveType and an InstanceType of the Array constructor
PrimitiveType(name) == [cls |-> "primitive", name |-> name, arg |-> "none"]
ArrayType(name) == [cls |-> "instance", name |-> "Array", arg |-> name]

\* glsl.ts TYPE_NAMES
TYPE_NAMES ==
  [n \in {"Int", "Int3", "Int4", "Float", "Float3", "Float4", "Float3x3",
          "Float4x4"} |->
     CASE n = "Int" -> "int"
       [] n = "Int3" -> "ivec3"
       [] n = "Int4" -> "ivec4"
       [] n = "Float" -> "float"
       [] n = "Float3" -> "vec3"
       [] n = "Float4" -> "vec4"
       [] n = "Float3x3" -> "mat3"
       [] n = "Float4x4" -> "mat4"]

\* glsl.shadervarsym: "s" + scopeid + "v" + varid
shadervarsym(scopeid, varid) == <<"s", scopeid, "v", varid>>

\* glsl._unwrap_array
_unwrap_array(t) ==
  IF t.cls = "instance" /\ t.name = "Array" THEN PrimitiveType(t.arg) ELSE t

\* glsl.emit_type
emit_type(type) ==
  IF type.cls = "primitive"
  THEN IF type.name \in DOMAIN TYPE_NAMES
       THEN [err |-> "none", name |-> TYPE_NAMES[type.name]]
       ELSE [err |-> "error: primitive type unsupported in GLSL",
             name |-> undefined]
  ELSE [err |-> "error: type unsupported in GLSL", name |-> undefined]

\* shader_kind without the test for a program that is not nested
shader_kind_no_toplevel_test(ir_, prog) ==
  IF prog.quote_parent # null
       /\ ir_.progs[prog.quote_parent].annotation = "f"
  THEN "vertex"
  ELSE "fragment"

\* prog_kind, lines 630-638: the kind of a shader program, by containment
shader_kind(ir_, prog) ==
  IF prog.quote_parent = null THEN "vertex"
  ELSE IF ir_.progs[prog.quote_parent].annotation = "f" THEN "vertex"
  ELSE "fragment"

\* prog_kind that classifies by containment alone when the annotation is not
\* the render one
prog_kind_by_containment(ir_, progid_) ==
  LET prog == ir_.progs[progid_]
  IN IF prog.annotation = "f" THEN "render" ELSE shader_kind(ir_, prog)

\* glsl.prog_kind
prog_kind(ir_, progid_) ==
  LET prog == ir_.progs[progid_]
  IN IF prog.annotation = "f" THEN "render"
     ELSE IF prog.annotation = "s" THEN shader_kind(ir_, prog)
     ELSE "ordinary"

\* persist_decl that never tells an attribute from a uniform
persist_decl_uniform_only(ir_, progid_, valueid, varid, kind_, out) ==
  LET type == ir_.type_table[valueid].type
      element_type == _unwrap_array(type)
      qual == IF kind_ = "vertex"
              THEN IF out THEN "varying" ELSE "uniform"
              ELSE IF kind_ = "fragment"
              THEN IF out THEN "error: fragment outputs not allowed"
                   ELSE "varying"
              ELSE "error: unknown shader kind"
      emitted == emit_type(element_type)
  IN IF qual \in {"error: fragment outputs not allowed",
                  "error: unknown shader kind"}
     THEN [err |-> qual, decl |-> <<>>]
     ELSE IF emitted.err # "none" THEN [err |-> emitted.err, decl |-> <<>>]
     ELSE [err |-> "none",
           decl |-> <<qual, emitted.name, shadervarsym(progid_, varid)>>]

\* glsl.persist_decl: the declaration of a variable that goes into or out of
\* a shader program
persist_decl(ir_, progid_, valueid, varid, kind_, out) ==
  LET type == ir_.type_table[valueid].type
      element_type == _unwrap_array(type)
      attribute == element_type # type
      qual == IF kind_ = "vertex"
              THEN IF out THEN "varying"
                   ELSE IF attribute THEN "attribute" ELSE "uniform"
              ELSE IF kind_ = "fragment"
              THEN IF out THEN "error: fragment outputs not allowed"
                   ELSE "varying"
              ELSE "error: unknown shader kind"
      emitted == emit_type(element_type)
  IN IF qual \in {"error: fragment outputs not allowed",
                  "error: unknown shader kind"}
     THEN [err |-> qual, decl |-> <<>>]
     ELSE IF emitted.err # "none" THEN [err |-> emitted.err, decl |-> <<>>]
     ELSE [err |-> "none",
           decl |-> <<qual, emitted.name, shadervarsym(progid_, varid)>>]

\* compile_prog, lines 566-571 and 579-584: the declarations for the persists
\* and then the free variables of `scope`, up to the first exception
RECURSIVE push_decls(_, _, _, _, _, _)
push_decls(ir_, scope, kind_, out, i, acc) ==
  IF acc.err # "none" \/ i > Len(scope.persist) + Len(scope.free) THEN acc
  ELSE LET d == IF i <= Len(scope.persist)
                THEN persist_decl(ir_, scope.id, scope.persist[i].body,
                                  scope.persist[i].id, kind_, out)
                ELSE LET fv == scope.free[i - Len(scope.persist)]
                     IN persist_decl(ir_, scope.id, fv, fv, kind_, out)
       IN push_decls(ir_, scope, kind_, out, i + 1,
            [err |-> d.err,
             decls |-> IF d.err = "none" THEN Append(acc.decls, d.decl)
                       ELSE acc.decls])

\* subprogram_decls that lets a second subprogram pass
subprogram_decls_two(ir_, prog, kind_, acc) ==
  IF acc.err # "none" THEN acc
  ELSE IF Len(prog.quote_children) > 2
  THEN [acc EXCEPT !.err = "error: too many subprograms"]
  ELSE IF Len(prog.quote_children) = 1
  THEN push_decls(ir_, ir_.progs[prog.quote_children[1]], kind_, TRUE, 1, acc)
  ELSE acc

\* compile_prog, lines 573-585: the `out` declarations for the subprogram;
\* there can be at most one
subprogram_decls(ir_, prog, kind_, acc) ==
  IF acc.err # "none" THEN acc
  ELSE IF Len(prog.quote_children) > 1
  THEN [acc EXCEPT !.err = "error: too many subprograms"]
  ELSE IF Len(prog.quote_children) = 1
  THEN push_decls(ir_, ir_.progs[prog.quote_children[1]], kind_, TRUE, 1, acc)
  ELSE acc

\* compile_prog, lines 587-592: the declarations of the bound variables
RECURSIVE local_decls(_, _, _, _)
local_decls(ir_, prog, i, acc) ==
  IF acc.err # "none" \/ i > Len(prog.bound) THEN acc
  ELSE LET t == emit_type(ir_.type_table[prog.bound[i]].type)
       IN local_decls(ir_, prog, i + 1,
            [err |-> t.err,
             decls |-> IF t.err = "none"
                       THEN Append(acc.decls,
                              <<t.name, shadervarsym(prog.id, prog.bound[i])>>)
                       ELSE acc.decls])

\* emitutil.emit_body over glsl.compile_rules: the code of a body; a
\* function in shader code is `throw "unimplemented"` (visit_fun)
emit_body(body) ==
  IF body = "fun" THEN [err |-> "unimplemented", code |-> <<>>]
  ELSE [err |-> "none", code |-> <<body>>]

NoDecls == [err |-> "none", decls |-> <<>>]

\* the exception `err` instead of a shader
Thrown(err_) == [err |-> err_, out |-> <<>>]

\* glsl.compile_prog
compile_prog(ir_, progid_) ==
  LET prog == ir_.progs[progid_]
      kind_ == prog_kind(ir_, progid_)
      ins == push_decls(ir_, prog, kind_, FALSE, 1, NoDecls)
      decls == subprogram_decls(ir_, prog, kind_, ins)
      locals == local_decls(ir_, prog, 1, NoDecls)
      code == emit_body(prog.body)
  IN IF kind_ \notin {"vertex", "fragment"}
     THEN Thrown("error: unexpected program kind")
     ELSE IF decls.err # "none" THEN Thrown(decls.err)
     ELSE IF locals.err # "none" THEN Thrown(locals.err)
     ELSE IF code.err # "none" THEN Thrown(code.err)
     ELSE [err |-> "none",
           out |-> <<"precision mediump float;">> \o decls.decls
                     \o <<<<"void main()", locals.decls, code.code>>>>]

\* glsl.is_intrinsic_call / frag_expr: a call of a lookup of `frag`
frag_expr(tree_, id) ==
  /\ tree_.nodes[id].tag = "call"
  /\ tree_.nodes[tree_.nodes[id].kids[1]].tag = "lookup"
  /\ tree_.nodes[tree_.nodes[id].kids[1]].ident = "frag"

\* glsl.compile_rules on an expression without children: the text of a
\* literal or of a lookup; visit_quote and visit_fun are
\* `throw "unimplemented"`
fself(tree_, id) ==
  IF tree_.nodes[id].tag \in {"quote", "fun"}
  THEN [err |-> "unimplemented", text |-> undefined]
  ELSE [err |-> "none", text |-> <<tree_.nodes[id].tag, id>>]

NoAssignments == [err |-> "none", out |-> <<>>]

\* visit_call, lines 433-437: one assignment per persist escape
RECURSIVE persist_assignments(_, _, _, _)
persist_assignments(tree_, subprog, i, acc) ==
  IF acc.err # "none" \/ i > Len(subprog.persist) THEN acc
  ELSE LET esc == subprog.persist[i]
           varname == shadervarsym(subprog.id, esc.id)
           value == fself(tree_, esc.body)
       IN persist_assignments(tree_, subprog, i + 1,
            IF value.err # "none" THEN Thrown(value.err)
            ELSE [acc EXCEPT !.out = Append(@, <<varname, "=", value.text>>)])

\* visit_call, lines 438-442: one assignment per free variable
RECURSIVE free_assignments(_, _, _, _)
free_assignments(ir_, subprog, i, acc) ==
  IF acc.err # "none" \/ i > Len(subprog.free) THEN acc
  ELSE LET fv == subprog.free[i]
           destvar == shadervarsym(subprog.id, fv)
       IN free_assignments(ir_, subprog, i + 1,
            IF subprog.quote_parent \notin DOMAIN ir_.progs
            THEN Thrown("TypeError")
            ELSE [acc EXCEPT !.out = Append(@,
                    <<destvar, "=",
                      shadervarsym(ir_.progs[subprog.quote_parent].id, fv)>>)])

\* hand_off with the free variables assigned first
hand_off_free_first(ir_, tree_, subprog) ==
  LET assignments ==
        persist_assignments(tree_, subprog, 1,
          free_assignments(ir_, subprog, 1, NoAssignments))
  IN IF assignments.err # "none" THEN Thrown(assignments.err)
     ELSE IF assignments.out # <<>>
     THEN [err |-> "none",
           out |-> <<"/* pass to fragment shader */">> \o assignments.out]
     ELSE [err |-> "none", out |-> <<>>]

\* visit_call, lines 428-449: assign to all the variables that correspond
\* to persists and free variables of the fragment shader's quotation
hand_off(ir_, tree_, subprog) ==
  LET assignments ==
        free_assignments(ir_, subprog, 1,
          persist_assignments(tree_, subprog, 1, NoAssignments))
  IN IF assignments.err # "none" THEN Thrown(assignments.err)
     ELSE IF assignments.out # <<>>
     THEN [err |-> "none",
           out |-> <<"/* pass to fragment shader */">> \o assignments.out]
     ELSE [err |-> "none", out |-> <<>>]

\* visit_call, lines 456-464: a static call, its arguments compiled in order
RECURSIVE static_call(_, _, _, _)
static_call(tree_, kids, i, acc) ==
  IF acc.err # "none" \/ i > Len(kids) THEN acc
  ELSE LET arg == fself(tree_, kids[i])
       IN static_call(tree_, kids, i + 1,
            IF arg.err # "none" THEN Thrown(arg.err)
            ELSE [acc EXCEPT !.out = Append(@, arg.text)])

\* glsl.compile_rules.visit_call
visit_call(ir_, tree_, id) ==
  LET kids == tree_.nodes[id].kids
      args == Tail(kids)
  IN IF frag_expr(tree_, id)
     THEN IF args = <<>> THEN Thrown("TypeError")
          ELSE IF tree_.nodes[args[1]].tag = "quote"
          THEN hand_off(ir_, tree_, ir_.progs[args[1]])
          ELSE Thrown("error: non-quote used with frag")
     ELSE IF tree_.nodes[kids[1]].tag = "lookup"
     THEN static_call(tree_, kids, 1, NoAssignments)
     ELSE Thrown("error: GLSL backend is not higher-order")

----------------------------------------------------------------------------
(* group_by_prog and the backend on tables of their own.                   *)

\* no program desugared
NoDesugaring ==
  /\ tree = NoTree
  /\ type_table = NoTable
  /\ input = [tree |-> NoTree, type_table |-> NoTable]
  /\ err = "none"
  /\ elab_calls = 0
  /\ steps = <<>>

ScopeIds == 0..(MaxScopes - 1)

\* Any table of Procs and any table of Progs, indexed by id: an id holds a
\* Proc, a Prog or nothing, and the quote_parent of a Proc is null or any id.
InitGroup ==
  /\ pc = "group_by_prog"
  /\ \E P \in SUBSET ScopeIds : \E Q \in SUBSET (ScopeIds \ P) :
       /\ \E up \in [P -> {null} \cup ScopeIds] :
            procs = [id \in P |-> [id |-> id, quote_parent |-> up[id]]]
       /\ progs = [id \in Q |->
                     [id |-> id, annotation |-> "", quote_parent |-> null,
                      quote_children |-> <<>>]]
  /\ NoDesugaring
  /\ intrinsics = <<>>
  /\ intrinsics_map = NoTable
  /\ scopes = {}
  /\ defuse = {}
  /\ externs = NoTable
  /\ grouped = NoResult
  /\ ir = NoTable
  /\ NoBackend

NextGroup == GroupByProg \/ Package

SpecGroup == InitGroup /\ [][NextGroup]_vars

\* the types of the values that cross into a shader
ValueTypes ==
  {PrimitiveType("Float"), ArrayType("Float"), PrimitiveType("Mesh")}

\* what a Prog of the IR holds besides its links: nothing, one persist
\* escape, one free variable or one bound variable of a type, or a function
\* as its body
Holdings ==
  {[role |-> "none", type |-> PrimitiveType("Float")],
   [role |-> "fun", type |-> PrimitiveType("Float")]}
    \cup [role : {"persist", "free", "bound"}, type : ValueTypes]

\* the id of the variable of Prog `id`, and of the value of its escape
VarId(id) == MaxProgs + 1 + id
ValueId(id) == 2 * (MaxProgs + 1) + id

\* Prog `id` of an IR with the quote hierarchy `up`, where Prog `holder`
\* holds `h`
ProgOf(id, up, annotations, holder, h) ==
  LET role == IF id = holder THEN h.role ELSE "none"
  IN [id |-> id,
      annotation |-> annotations[id],
      quote_parent |-> up[id],
      quote_children |-> Ascending({q \in DOMAIN up : up[q] = id}),
      persist |-> IF role = "persist"
                  THEN <<[id |-> VarId(id), body |-> ValueId(id)]>>
                  ELSE <<>>,
      free |-> IF role = "free" THEN <<VarId(id)>> ELSE <<>>,
      bound |-> IF role = "bound" THEN <<VarId(id)>> ELSE <<>>,
      body |-> IF role = "fun" THEN "fun" ELSE "literal"]

\* the quote hierarchies of n Progs: the parent of a Prog has a smaller id
Hierarchies(n) ==
  {up \in [0..(n - 1) -> {null} \cup 0..(n - 1)] :
     \A id \in 0..(n - 1) : up[id] < id}

\* An IR of up to MaxProgs Progs: its Progs with their annotations and
\* links, and the types of the variables they hold.
InitGLSL ==
  /\ pc = "backend"
  /\ \E n \in 1..MaxProgs :
     \E up \in Hierarchies(n), annotations \in [0..(n - 1) -> {"f", "s", ""}],
        holder \in 0..(n - 1), h \in Holdings :
       ir = [progs |-> [id \in 0..(n - 1) |->
                          ProgOf(id, up, annotations, holder, h)],
             type_table |->
               [id \in {VarId(holder), ValueId(holder)} |->
                  [type |-> h.type, env |-> NullEnv]]]
  /\ NoDesugaring
  /\ intrinsics = <<>>
  /\ intrinsics_map = NoTable
  /\ scopes = {}
  /\ defuse = {}
  /\ externs = NoTable
  /\ procs = NoTable
  /\ progs = NoTable
  /\ grouped = NoResult
  /\ NoBackend

\* a backend asks for the kind of a Prog
ProgKind ==
  /\ pc = "backend"
  /\ \E id \in DOMAIN ir.progs :
       /\ progid' = id
       /\ kind' = prog_kind(ir, id)
  /\ pc' = "prog_kind"
  /\ UNCHANGED <<Desugarer, type_table, err, steps, Analysis, shader>>

\* a backend compiles a Prog
CompileProg ==
  /\ pc = "backend"
  /\ \E id \in DOMAIN ir.progs :
       /\ progid' = id
       /\ shader' = compile_prog(ir, id)
  /\ pc' = "compile_prog"
  /\ UNCHANGED <<Desugarer, type_table, err, steps, Analysis, kind>>

\* the kinds of ProgKind
ProgKinds == {"ordinary", "render", "vertex", "fragment"}

\* the id of the value of the variable that Prog `prog` holds: the body of
\* its persist escape, or its free variable
HeldValue(prog) ==
  IF prog.persist # <<>> THEN prog.persist[1].body ELSE prog.free[1]

\* the id of the variable that Prog `prog` holds
HeldVar(prog) ==
  IF prog.persist # <<>> THEN prog.persist[1].id ELSE prog.free[1]

\* a declaration is asked for the variable of a Prog, for any kind and
\* either direction
PersistDecl ==
  /\ pc = "backend"
  /\ \E id \in DOMAIN ir.progs, kind_ \in ProgKinds, out \in BOOLEAN :
       LET prog == ir.progs[id]
           r == persist_decl(ir, id, HeldValue(prog), HeldVar(prog), kind_,
                             out)
       IN /\ prog.persist # <<>> \/ prog.free # <<>>
          /\ progid' = id
          /\ kind' = kind_
          /\ shader' = [err |-> r.err, out |-> r.decl]
          /\ pc' = IF out THEN "persist_decl(out)" ELSE "persist_decl(in)"
  /\ UNCHANGED <<Desugarer, type_table, err, steps, Analysis>>

NextGLSL == ProgKind \/ CompileProg \/ PersistDecl

SpecGLSL == InitGLSL /\ [][NextGLSL]_vars

\* the functions a shader calls: frag, another name, and a function value
Callees == {LookupNode("frag"), LookupNode("vtx"), FunNode(LiteralNode)}

\* the arguments of a call: literals and one literal quotation
ArgLists ==
  {<<>>, <<LiteralNode>>, <<QuoteNode(LiteralNode)>>,
   <<QuoteNode(LiteralNode), LiteralNode>>,
   <<LiteralNode, QuoteNode(LiteralNode)>>}

\* the id of the vertex shader's quotation, of the call in its body, and of
\* the first persist escape, escape body and free variable of the quotation
\* handed to frag
VertexId == 0
CallId == 1
FirstEscape == 10
FirstBody == 20
FirstFree == 30

\* the expressions a persist escape evaluates in the enclosing stage
EscapeBodies == {LiteralNode, LookupNode("x"), FunNode(LiteralNode)}

\* the call in the body of the vertex shader, with the bodies of the
\* escapes of its quotation
CallTree(callee, args, bodies) ==
  [root |-> CallId,
   nodes |-> Graft(stamp(CallNode(callee, args), CallId))
               @@ [id \in {FirstBody + i : i \in 1..Len(bodies)} |->
                     [Link(bodies[id - FirstBody]) EXCEPT !.id = id]]]

\* the Progs of the vertex shader and of the quotation in `tree_`, if
\* there is one
CallProgs(tree_, npersist, nfree) ==
  LET quotes == {id \in DOMAIN tree_.nodes : tree_.nodes[id].tag = "quote"}
      shape == [id |-> VertexId, annotation |-> "s", quote_parent |-> null,
                quote_children |-> Ascending(quotes), persist |-> <<>>,
                free |-> <<>>, bound |-> <<>>, body |-> "call"]
  IN (VertexId :> shape)
       @@ [id \in quotes |->
             [shape EXCEPT
                !.id = id, !.quote_parent = VertexId, !.quote_children = <<>>,
                !.persist = [i \in 1..npersist |->
                               [id |-> FirstEscape + i, body |-> FirstBody + i]],
                !.free = [i \in 1..nfree |-> FirstFree + i],
                !.body = "literal"]]

\* A call in the body of a vertex shader: any callee, any of the argument
\* lists, and a quotation with up to MaxVars persist escapes and up to
\* MaxVars free variables.
InitFrag ==
  /\ pc = "backend"
  /\ \E callee \in Callees, args \in ArgLists, npersist \in 0..MaxVars,
        nfree \in 0..MaxVars :
     \E bodies \in [1..npersist -> EscapeBodies] :
       /\ tree = CallTree(callee, args, bodies)
       /\ ir = [progs |-> CallProgs(tree, npersist, nfree),
                type_table |-> NoTable]
  /\ type_table = NoTable
  /\ input = [tree |-> NoTree, type_table |-> NoTable]
  /\ err = "none"
  /\ elab_calls = 0
  /\ steps = <<>>
  /\ intrinsics = <<>>
  /\ intrinsics_map = NoTable
  /\ scopes = {}
  /\ defuse = {}
  /\ externs = NoTable
  /\ procs = NoTable
  /\ progs = NoTable
  /\ grouped = NoResult
  /\ NoBackend

\* the backend compiles the call
VisitCall ==
  /\ pc = "backend"
  /\ tree.root # null
  /\ tree.nodes[tree.root].tag = "call"
  /\ shader' = visit_call(ir, tree, tree.root)
  /\ pc' = "visit_call"
  /\ UNCHANGED <<Desugarer, type_table, err, steps, Analysis, progid, kind>>

NextFrag == VisitCall

SpecFrag == InitFrag /\ [][NextFrag]_vars

----------------------------------------------------------------------------
(* Properties of group_by_prog.                                            *)

\* no element twice
NoDuplicates(seq) == \A i, j \in DOMAIN seq : seq[i] = seq[j] => i = j

\* the ids of the Procs and of the Progs handed to group_by_prog
ProcIds == {procs[i].id : i \in DOMAIN procs}
ProgIds == {progs[i].id : i \in DOMAIN progs}

\* the Proc with the id `id`
ProcOf(id) == procs[CHOOSE i \in DOMAIN procs : procs[i].id = id]

\* C1: when group_by_prog returns, every Prog has a list; a Proc is in the
\* top-level list exactly when it has no quote_parent and in the list of a
\* Prog exactly when that Prog is its quote_parent; and the lists together
\* hold every Proc exactly once.
C1_GroupingPartition ==
  (After("group_by_prog") /\ err = "none") =>
    /\ DOMAIN grouped.quoted = ProgIds
    /\ \A id \in ProcIds :
         /\ id \in Range(grouped.toplevel) <=> ProcOf(id).quote_parent = null
         /\ \A q \in ProgIds :
              id \in Range(grouped.quoted[q]) <=> ProcOf(id).quote_parent = q
    /\ Range(grouped.toplevel)
         \cup UNION {Range(grouped.quoted[q]) : q \in ProgIds} = ProcIds
    /\ NoDuplicates(grouped.toplevel)
    /\ \A q \in ProgIds : NoDuplicates(grouped.quoted[q])
    /\ \A q \in ProgIds :
         /\ Range(grouped.toplevel) \cap Range(grouped.quoted[q]) = {}
         /\ \A r \in ProgIds \ {q} :
              Range(grouped.quoted[q]) \cap Range(grouped.quoted[r]) = {}

\* group_by_prog has returned a top-level Proc, a Proc quoted by Prog 0 and
\* a Prog with an empty list
C1_Witness ==
  /\ After("group_by_prog")
  /\ err = "none"
  /\ grouped.toplevel # <<>>
  /\ 0 \in ProgIds
  /\ grouped.quoted[0] # <<>>
  /\ \E q \in ProgIds : grouped.quoted[q] = <<>>

\* some Proc has a quote_parent that is not the id of a Prog
Gap ==
  \E id \in ProcIds :
    ProcOf(id).quote_parent # null /\ ProcOf(id).quote_parent \notin ProgIds

\* C13: once group_by_prog has run on tables where the quote_parent of some
\* Proc is not the id of a Prog, the call has ended in an exception, the
\* analysis is aborted and no IR is packaged; without such a Proc the call
\* returns; and no list exists for an id that is not the id of a Prog.
C13_GroupingGapFatal ==
  "group_by_prog" \in Range(steps) =>
    /\ Gap <=> err = "TypeError"
    /\ Gap => (pc = "aborted" /\ ir = NoTable /\ "package" \notin Range(steps))
    /\ ~Gap => (err = "none" /\ pc \in {"package", "done"})
    /\ DOMAIN grouped.quoted \subseteq ProgIds

\* group_by_prog has met a Proc whose quote_parent is no Prog, after it
\* had inserted a Proc of the top level and one of a Prog
C13_Witness ==
  /\ After("group_by_prog")
  /\ Gap
  /\ err = "TypeError"
  /\ pc = "aborted"
  /\ grouped.toplevel # <<>>
  /\ \E q \in ProgIds : grouped.quoted[q] # <<>>

----------------------------------------------------------------------------
(* Properties of the GLSL backend.                                         *)

\* the Prog the backend was asked about
AskedProg == ir.progs[progid]

\* Prog `prog` has no quote_parent or one that is a render program
UnderRender(prog) ==
  \/ prog.quote_parent = null
  \/ ir.progs[prog.quote_parent].annotation = "f"

\* C8 as stated: prog_kind returns render for the render annotation, else
\* vertex for a Prog with no quote_parent or a render quote_parent, else
\* fragment, and no other role.
C8_StageRole ==
  pc = "prog_kind" =>
    kind = IF AskedProg.annotation = "f" THEN "render"
           ELSE IF UnderRender(AskedProg) THEN "vertex"
           ELSE "fragment"

\* C8: prog_kind returns render exactly for the render annotation, ordinary
\* exactly for an annotation that is neither the render nor the shader one,
\* and for the shader annotation vertex when the Prog has no quote_parent or
\* a render quote_parent and fragment otherwise.
C8_StageRoleAmended ==
  pc = "prog_kind" =>
    /\ kind \in {"render", "vertex", "fragment", "ordinary"}
    /\ kind = "render" <=> AskedProg.annotation = "f"
    /\ kind = "ordinary" <=> AskedProg.annotation \notin {"f", "s"}
    /\ kind = "vertex" <=>
         AskedProg.annotation = "s" /\ UnderRender(AskedProg)
    /\ kind = "fragment" <=>
         AskedProg.annotation = "s" /\ ~UnderRender(AskedProg)

\* prog_kind has answered fragment for a shader nested in a shader, in an IR
\* that also has a vertex shader under a render program
C8_Witness ==
  /\ pc = "prog_kind"
  /\ kind = "fragment"
  /\ AskedProg.quote_parent # null
  /\ ir.progs[AskedProg.quote_parent].annotation = "s"
  /\ \E id \in DOMAIN ir.progs :
       /\ ir.progs[id].annotation = "s"
       /\ ir.progs[id].quote_parent # null
       /\ ir.progs[ir.progs[id].quote_parent].annotation = "f"

\* the IR of two sibling quotations at the top level, one of them with the
\* render annotation, neither with a nested quotation
Siblings ==
  /\ DOMAIN ir.progs = {0, 1}
  /\ \A id \in {0, 1} : ir.progs[id].quote_parent = null
  /\ Cardinality({id \in {0, 1} : ir.progs[id].annotation = "f"}) = 1

\* C9 as stated: both of two top-level sibling quotations, one of them with
\* the render annotation, are vertex programs with no quote_children.
C9_SiblingsVertex ==
  (pc = "prog_kind" /\ Siblings) =>
    /\ kind = "vertex"
    /\ \A id \in {0, 1} : ir.progs[id].quote_children = <<>>

\* C9: of two top-level sibling quotations, the one with the render
\* annotation is a render program and the other one a vertex program when it
\* has the shader annotation and an ordinary program otherwise; both have no
\* quote_children.
C9_SiblingsAmended ==
  (pc = "prog_kind" /\ Siblings) =>
    /\ kind = CASE AskedProg.annotation = "f" -> "render"
                [] AskedProg.annotation = "s" -> "vertex"
                [] OTHER -> "ordinary"
    /\ \A id \in {0, 1} : ir.progs[id].quote_children = <<>>

\* prog_kind has answered vertex for the sibling of a render quotation
C9_Witness ==
  /\ pc = "prog_kind"
  /\ Siblings
  /\ AskedProg.annotation = "s"
  /\ kind = "vertex"

\* C10: compile_prog of a Prog with more than one quote_child ends in an
\* exception and returns no shader text; with no or one quote_child it does
\* not end in the exception of the nesting check.
C10_NestingLimit ==
  pc = "compile_prog" =>
    /\ Len(AskedProg.quote_children) > 1 =>
         shader.err # "none" /\ shader.out = <<>>
    /\ Len(AskedProg.quote_children) <= 1 =>
         shader.err # "error: too many subprograms"

\* compile_prog of a vertex shader with two quote_children has ended in the
\* exception of the nesting check
C10_Witness ==
  /\ pc = "compile_prog"
  /\ Len(AskedProg.quote_children) = 2
  /\ prog_kind(ir, progid) = "vertex"
  /\ shader.err = "error: too many subprograms"
  /\ shader.out = <<>>

----------------------------------------------------------------------------
(* Properties of the call rule of the GLSL backend.                        *)

\* the arguments of the compiled call, and the Prog of its first argument
CallArgs == Tail(tree.nodes[tree.root].kids)
QuoteArg == CallArgs # <<>> /\ tree.nodes[CallArgs[1]].tag = "quote"
Subprog == ir.progs[CallArgs[1]]

\* the assignments of a hand-off: the lines after its comment line
Assignments(out) == IF out = <<>> THEN <<>> ELSE Tail(out)

\* every persist escape of the quotation has a body the backend compiles
BodiesCompile ==
  \A i \in 1..Len(Subprog.persist) :
    tree.nodes[Subprog.persist[i].body].tag \notin {"fun", "quote"}

\* C14: the call rule, on a call of frag whose first argument is not a
\* literal quotation, ends in an exception and emits nothing; on a call of
\* frag with a literal quotation it emits, when it returns, one assignment
\* per persist escape of the quotation's Prog in the order of the persist
\* list, then one per free variable in the order of the free list, and
\* nothing at all when both lists are empty.
C14_LiteralQuotation ==
  (pc = "visit_call" /\ frag_expr(tree, tree.root)) =>
    /\ ~QuoteArg => (shader.err # "none" /\ shader.out = <<>>)
    /\ QuoteArg => (shader.err = "none" <=> BodiesCompile)
    /\ (QuoteArg /\ shader.err = "none") =>
         LET np == Len(Subprog.persist)
             nf == Len(Subprog.free)
             assigned == Assignments(shader.out)
         IN /\ Len(assigned) = np + nf
            /\ \A i \in 1..np :
                 /\ assigned[i][1]
                      = shadervarsym(Subprog.id, Subprog.persist[i].id)
                 /\ assigned[i][3][2] = Subprog.persist[i].body
            /\ \A j \in 1..nf :
                 /\ assigned[np + j][1]
                      = shadervarsym(Subprog.id, Subprog.free[j])
                 /\ assigned[np + j][3]
                      = shadervarsym(Subprog.quote_parent, Subprog.free[j])
            /\ (np + nf = 0) <=> shader.out = <<>>
            /\ (np + nf > 0) =>
                 shader.out[1] = "/* pass to fragment shader */"

\* the hand-off for a quotation with two persist escapes and two free
\* variables was emitted
C14_Witness ==
  /\ pc = "visit_call"
  /\ frag_expr(tree, tree.root)
  /\ QuoteArg
  /\ shader.err = "none"
  /\ Len(Subprog.persist) = 2
  /\ Len(Subprog.free) = 2
  /\ Len(shader.out) = 5

----------------------------------------------------------------------------
(* Properties of the declarations of shader variables.                     *)

\* the type of the value a declaration was asked for
DeclaredType == ir.type_table[HeldValue(AskedProg)].type

\* the qualifier for a kind, a direction and a type; "error" for none
Qualifier(kind_, out, type) ==
  CASE kind_ = "vertex" /\ out -> "varying"
    [] kind_ = "vertex" /\ ~out /\ type.cls = "instance" -> "attribute"
    [] kind_ = "vertex" /\ ~out /\ type.cls # "instance" -> "uniform"
    [] kind_ = "fragment" /\ ~out -> "varying"
    [] OTHER -> "error"

\* the Prog is a fragment shader: a shader nested in a program that is not
\* a render program
FragmentRole(prog) == prog.annotation = "s" /\ ~UnderRender(prog)

C15_FragmentOutput ==
  /\ pc = "compile_prog"
  /\ FragmentRole(AskedProg)
  /\ Len(AskedProg.quote_children) = 1
  /\ shader.err = "error: fragment outputs not allowed"

====
